---- MODULE Spec2Model ----
(***************************************************************************)
(* Model of src/main.py: the users table, the /subscribe, /heartbeat and   *)
(* /test-subscription handlers, send_push_notification with                *)
(* remove_expired_subscription and get_vapid_claims, and the               *)
(* check_inactive_users job that the background scheduler fires every      *)
(* Interval minutes.                                                       *)
(*                                                                         *)
(* Time is counted in minutes.  A handler's reads (its lookup, utcnow()),  *)
(* each wait for the push service and each commit are steps of their own,  *)
(* so that handlers and the job interleave as threads and worker processes *)
(* sharing sqlite:///users.db do.                                          *)
(***************************************************************************)
EXTENDS Integers, Sequences, FiniteSets, TLC

\* ---- bounds of the model ------------------------------------------------
MaxTime == 4
MaxRows == 2
MaxCalls == 2
\* longest path of an endpoint URL, in segments
MaxPath == 1

\* ---- program constants --------------------------------------------------
\* timedelta(minutes=1) in check_inactive_users
Threshold == 1
\* scheduler.add_job(..., "interval", minutes=2)
Interval == 2

Names == {"a", "b"}
\* Endpoint descriptors a client can register.
Descs == {"d1", "d2"}
\* JSON null in the subscription column / request field.
NoSub == "null"
Payloads == Descs \cup {NoSub}
\* A request body without the "subscription" key.
Missing == "missing"
RequestSubscriptions == Payloads \cup {Missing}
\* HTTP outcomes of webpush(): 201 accepted, 410 gone, 403 VAPID rejected,
\* 500 stands for every other failure (other status, no response, timeout).
Statuses == {201, 410, 403, 500}
\* Request slots: at most two API handlers are in flight at once.
Slots == {1, 2}

VARIABLES
    users,          \* the users table: sequence of rows, id = index
    now,            \* datetime.utcnow(), in minutes
    next_run_time,  \* the job's next fire time
    job,            \* the running check_inactive_users call
    reqs,           \* in-flight API handlers, by slot
    calls,          \* API calls made so far
    hist,           \* per row: what the job did to it (history)
    vapid           \* a get_vapid_claims call: its argument and its result

vars == <<users, now, next_run_time, job, reqs, calls, hist, vapid>>

Rows == 1..MaxRows

\* ---- pure helpers ---------------------------------------------------------
Min(S) == CHOOSE x \in S : \A y \in S : x <= y

\* Faulty variant of the lookup by name: falls back to the first row.
FirstByNameOrAny(tbl, name) ==
    LET hit == {i \in DOMAIN tbl : tbl[i].name = name}
    IN IF hit = {} THEN (IF Len(tbl) > 0 THEN 1 ELSE 0) ELSE Min(hit)

\* db.query(User).filter(User.name == name).first(): lowest id, 0 for None.
FirstByName(tbl, name) ==
    LET hit == {i \in DOMAIN tbl : tbl[i].name = name}
    IN IF hit = {} THEN 0 ELSE Min(hit)

\* db.query(User).filter(User.subscription == subscription).first()
FirstBySubscription(tbl, sub) ==
    LET hit == {i \in DOMAIN tbl : tbl[i].subscription = sub}
    IN IF hit = {} THEN 0 ELSE Min(hit)

\* Faulty variant of the check at line 193: every scanned user is sent to.
UserHasSubscriptionAlways(sub) == TRUE

\* `if user.subscription:` at line 193

UserHasSubscription(sub) == sub # NoSub

\* `if not subscription:` at line 119, negated
SubscriptionProvided(sub) == sub # NoSub

\* Faulty variant of the scan's filter: a minute too late.
IsInactiveLoose(last_active, inactive_time) == last_active + 1 < inactive_time

\* User.last_active < inactive_time

IsInactive(last_active, inactive_time) == last_active < inactive_time

\* Faulty variant of the 410 test: a 403 is treated as expiry too.
IsGoneOr403(status) == status \in {410, 403}

\* e.response.status_code == 410

IsGone(status) == status = 410

\* The ids the scan returns, in rowid order.
RECURSIVE ScanFrom(_, _, _)
ScanFrom(tbl, i, inactive_time) ==
    IF i > Len(tbl) THEN <<>>
    ELSE (IF IsInactive(tbl[i].last_active, inactive_time)
          THEN <<[id |-> i, subscription |-> tbl[i].subscription,
                  last_active |-> tbl[i].last_active]>>
          ELSE <<>>) \o ScanFrom(tbl, i + 1, inactive_time)

\* ---- get_vapid_claims ------------------------------------------------------
\* A URL is a sequence of tokens: scheme, ":", "//", host, ":", port, then
\* "/" and a segment per path segment, then "?" and the query.
Schemes == {"https", "http"}
Hosts == {"fcm.googleapis.com", "updates.push.example.org",
          "fcm.googleapis.com.example.org"}
Ports == {"", "8443"}
Segments == {"send", "fcm.googleapis.com"}
Queries == {"", "k=v"}
\* The tokens whose text has 'fcm.googleapis.com' as a substring.
FcmTokens == {"fcm.googleapis.com", "fcm.googleapis.com.example.org"}
\* "mailto:you@example.com"
Contact == "mailto:you@example.com"
\* 'https://fcm.googleapis.com'
FcmAud == <<"https", "://", "fcm.googleapis.com">>

\* Faulty variant of the end of the netloc: only the path ends it.
SlashOnly == {"/"}

\* urlsplit: the netloc runs up to the first of "/", "?", "#".
NetlocDelimiters == {"/", "?", "#"}

\* 'fcm.googleapis.com' in endpoint
ContainsFcm(endpoint) == \E i \in DOMAIN endpoint : endpoint[i] \in FcmTokens

\* urlparse(endpoint).scheme: the text before the first ":".
UrlScheme(endpoint) ==
    IF Len(endpoint) >= 2 /\ endpoint[2] = ":" /\ endpoint[1] \in Schemes
    THEN endpoint[1] ELSE ""

RECURSIVE TakeNetloc(_, _)
TakeNetloc(endpoint, i) ==
    IF i > Len(endpoint) \/ endpoint[i] \in NetlocDelimiters THEN <<>>
    ELSE <<endpoint[i]>> \o TakeNetloc(endpoint, i + 1)

\* urlparse(endpoint).netloc: what follows "//" after the scheme.
UrlNetloc(endpoint) ==
    LET start == IF UrlScheme(endpoint) = "" THEN 1 ELSE 3
    IN IF Len(endpoint) >= start /\ endpoint[start] = "//"
       THEN TakeNetloc(endpoint, start + 1) ELSE <<>>

\* get_vapid_claims, lines 98-115.  A null or empty subscription_info has
\* no "endpoint" key either.
GetVapidClaims(subscription_info) ==
    IF "endpoint" \notin DOMAIN subscription_info
    THEN [sub |-> Contact]
    ELSE LET endpoint == subscription_info.endpoint
             aud == IF ContainsFcm(endpoint) THEN FcmAud
                    ELSE <<UrlScheme(endpoint), "://">> \o UrlNetloc(endpoint)
         IN [sub |-> Contact, aud |-> aud]

\* The endpoint URLs a push service hands out: absolute, with an optional
\* port, a path of up to MaxPath segments and an optional query.
Paths == UNION {[1..n -> Segments] : n \in 0..MaxPath}

UrlParts == [scheme : Schemes, host : Hosts, port : Ports, path : Paths,
             query : Queries]

RECURSIVE FormatPath(_, _)
FormatPath(path, i) ==
    IF i > Len(path) THEN <<>>
    ELSE <<"/", path[i]>> \o FormatPath(path, i + 1)

Authority(p) == <<p.host>> \o (IF p.port = "" THEN <<>> ELSE <<":", p.port>>)

FormatUrl(p) ==
    <<p.scheme, ":", "//">> \o Authority(p) \o FormatPath(p.path, 1)
       \o (IF p.query = "" THEN <<>> ELSE <<"?", p.query>>)

NoParts == [scheme |-> "", host |-> "", port |-> "", path |-> <<>>,
            query |-> ""]

NoCall == [pc |-> "none", parts |-> NoParts,
           subscription_info |-> [keys |-> "k"], vapid_claims |-> [sub |-> ""]]

\* The calls of get_vapid_claims: a subscription with an endpoint built
\* from parts, or one without the "endpoint" key.
VapidCalls ==
    {[NoCall EXCEPT !.pc = "call", !.parts = p,
                    !.subscription_info = [endpoint |-> FormatUrl(p),
                                           keys |-> "k"]] : p \in UrlParts}
    \cup {[NoCall EXCEPT !.pc = "call"]}

\* ---- initial state --------------------------------------------------------
\* hist[r], the history the claims are stated over.  attempts: sends issued
\* to row r in the current run.  cur: -1 from the scan that selected r until
\* its send returns, then the status returned; 0 when r was not selected or
\* a heartbeat or subscribe committed on r since the scan.  prev: cur of the
\* previous run.  gone: "gone" after a 410 for r with no such commit since
\* the scan, "resub" after a subscribe committed on a gone row, "again"
\* when a send is issued to a gone row.  t0: the time of the last subscribe
\* with a descriptor when nothing wrote last_active since, else -1.
\* tested: since the last scan a manual test send to r came back 410 and
\* cleared r's subscription (which also clears cur and prev).
\* beat: "no" unless the last write of r's last_active was a heartbeat,
\* then "sub" or "unsub": whether r held a subscription at that commit.
\* The job's record also keeps the history of its run: sent, the sends
\* issued; delivered and undelivered, the sends that returned with 201 and
\* with anything else; skipped, the users passed without a send; fresh, the
\* rows a subscribe wrote a descriptor to while the job was inside
\* send_push_notification (from the send to the end of the removal).
IdleJob == [pc |-> "idle", inactive_time |-> 0, inactive_users |-> <<>>,
            i |-> 0, expired |-> FALSE, successful |-> 0, failed |-> 0,
            subscription |-> NoSub, status |-> 0, ts |-> 0, user |-> 0,
            sent |-> 0, delivered |-> 0, undelivered |-> 0, skipped |-> 0,
            fresh |-> {}]

NoReq == [op |-> "none", pc |-> "none", name |-> "", subscription |-> NoSub,
          user |-> 0, loaded |-> NoSub, ts |-> 0, found |-> 0]

NoHist == [attempts |-> 0, cur |-> 0, prev |-> 0, gone |-> "no", t0 |-> -1,
           tested |-> FALSE, beat |-> "no"]

\* users.db outlives the process: at start the table is empty or holds a
\* row that an earlier run registered.
InitialTables ==
    {<<>>, <<[name |-> "a", subscription |-> "d1", last_active |-> 0]>>}

Init ==
    /\ users \in InitialTables
    /\ now = 0
    /\ next_run_time = Interval
    /\ job = IdleJob
    /\ reqs = [s \in Slots |-> NoReq]
    /\ calls = 0
    /\ hist = [r \in Rows |-> NoHist]
    /\ vapid = NoCall

\* ---- time and the scheduler ----------------------------------------------
\* Time passes; the scheduler thread wakes at next_run_time, never later,
\* and the idle pool thread starts a submitted job at once.
Advance ==
    /\ now < MaxTime
    /\ now < next_run_time
    /\ job.pc # "start"
    /\ now' = now + 1
    /\ UNCHANGED <<users, next_run_time, job, reqs, calls, hist, vapid>>

\* Faulty variant of the scheduler: no max_instances, a fire time starts a
\* run whether or not one is running.
ProcessJobsOverlapping ==
    /\ now = next_run_time
    /\ next_run_time' = next_run_time + Interval
    /\ job' = [IdleJob EXCEPT !.pc = "start"]
    /\ UNCHANGED <<users, now, reqs, calls, hist, vapid>>

\* The scheduler submits the job to ThreadPoolExecutor(1) with
\* max_instances = 1: a fire time that finds the job running is skipped.
ProcessJobs ==
    /\ now = next_run_time
    /\ next_run_time' = next_run_time + Interval
    /\ job' = IF job.pc = "idle" THEN [job EXCEPT !.pc = "start"] ELSE job
    /\ UNCHANGED <<users, now, reqs, calls, hist, vapid>>

\* ---- check_inactive_users -------------------------------------------------
Cur == job.inactive_users[job.i].id

\* lines 180-190: compute inactive_time, run the query, zero the counters.
CheckScan ==
    /\ job.pc = "start"
    /\ job' = [IdleJob EXCEPT !.pc = "loop",
                              !.inactive_time = now - Threshold,
                              !.inactive_users = ScanFrom(users, 1, now - Threshold),
                              !.i = 1]
    /\ hist' = [r \in Rows |->
                  [hist[r] EXCEPT !.attempts = 0, !.tested = FALSE,
                                  !.prev = IF hist[r].cur = -1 THEN 0 ELSE hist[r].cur,
                                  !.cur = IF /\ r \in DOMAIN users
                                             /\ IsInactive(users[r].last_active,
                                                           now - Threshold)
                                          THEN -1 ELSE 0]]
    /\ UNCHANGED <<users, now, next_run_time, reqs, calls, vapid>>

\* user.subscription as the session sees it: the scanned value until the
\* first commit expires the session's objects, a fresh load afterwards.
SeenSubscription ==
    IF job.expired THEN users[Cur].subscription
    ELSE job.inactive_users[job.i].subscription

\* lines 192-199 and 210-211: the next user of the batch; a send is issued
\* (webpush, line 137) only for a truthy subscription.
CheckNext ==
    /\ job.pc = "loop"
    /\ job.i <= Len(job.inactive_users)
    /\ IF UserHasSubscription(SeenSubscription)
       THEN IF SubscriptionProvided(SeenSubscription)
            THEN /\ job' = [job EXCEPT !.pc = "send", !.sent = @ + 1,
                                       !.subscription = SeenSubscription]
                 /\ hist' = [hist EXCEPT ![Cur].attempts = @ + 1,
                                         ![Cur].gone = IF @ = "gone"
                                                       THEN "again" ELSE @]
            ELSE \* send_push_notification returns False at line 121
                 /\ job' = [job EXCEPT !.failed = @ + 1, !.expired = TRUE,
                                       !.i = @ + 1]
                 /\ UNCHANGED hist
       ELSE /\ job' = [job EXCEPT !.i = @ + 1, !.skipped = @ + 1]
            /\ UNCHANGED hist
    /\ UNCHANGED <<users, now, next_run_time, reqs, calls, vapid>>

\* lines 137-162 and 201-207: webpush returns or raises.
SendReturns(status) ==
    /\ job.pc = "send"
    /\ LET ret == IF status = 201
                  THEN [job EXCEPT !.pc = "commit", !.status = status,
                                   !.successful = @ + 1, !.ts = now,
                                   !.fresh = {}]
                  ELSE IF IsGone(status)
                  THEN [job EXCEPT !.pc = "remove", !.status = status]
                  ELSE [job EXCEPT !.pc = "loop", !.status = status,
                                   !.failed = @ + 1, !.expired = TRUE,
                                   !.i = @ + 1, !.subscription = NoSub,
                                   !.fresh = {}]
       IN job' = [ret EXCEPT !.delivered = IF status = 201 THEN @ + 1 ELSE @,
                             !.undelivered = IF status = 201 THEN @ ELSE @ + 1]
    /\ hist' = [hist EXCEPT ![Cur].cur = IF @ = -1 THEN status ELSE @,
                            ![Cur].gone = IF status = 410 /\ hist[Cur].cur = -1
                                             /\ @ # "again"
                                          THEN "gone" ELSE @]
    /\ UNCHANGED <<users, now, next_run_time, reqs, calls, vapid>>

\* remove_expired_subscription, lines 166-169: the lookup by subscription.
RemoveQuery ==
    /\ job.pc = "remove"
    /\ LET u == FirstBySubscription(users, job.subscription)
       IN IF u = 0
          THEN job' = [job EXCEPT !.pc = "loop", !.failed = @ + 1,
                                  !.expired = TRUE, !.i = @ + 1,
                                  !.subscription = NoSub, !.fresh = {}]
          ELSE job' = [job EXCEPT !.pc = "remove_commit", !.user = u]
    /\ UNCHANGED <<users, now, next_run_time, reqs, calls, hist, vapid>>

\* Faulty variant: the send that removed an expired subscription is not
\* counted as failed.
RemoveCommitUncounted ==
    /\ job.pc = "remove_commit"
    /\ users' = [users EXCEPT ![job.user].subscription = NoSub]
    /\ job' = [job EXCEPT !.pc = "loop", !.expired = TRUE,
                          !.i = @ + 1, !.subscription = NoSub, !.user = 0,
                          !.fresh = {}]
    /\ UNCHANGED <<now, next_run_time, reqs, calls, hist, vapid>>

\* lines 170-176, then 158 and 205-209: clear, commit, count the failure.
RemoveCommit ==
    /\ job.pc = "remove_commit"
    /\ users' = [users EXCEPT ![job.user].subscription = NoSub]
    /\ job' = [job EXCEPT !.pc = "loop", !.failed = @ + 1, !.expired = TRUE,
                          !.i = @ + 1, !.subscription = NoSub, !.user = 0,
                          !.fresh = {}]
    /\ UNCHANGED <<now, next_run_time, reqs, calls, hist, vapid>>

\* line 209 after a success: UPDATE users SET last_active WHERE id.
CheckCommit ==
    /\ job.pc = "commit"
    /\ users' = [users EXCEPT ![Cur].last_active = job.ts]
    /\ job' = [job EXCEPT !.pc = "loop", !.expired = TRUE, !.i = @ + 1,
                          !.subscription = NoSub]
    /\ hist' = [hist EXCEPT ![Cur].t0 = -1, ![Cur].beat = "no"]
    /\ UNCHANGED <<now, next_run_time, reqs, calls, vapid>>

\* line 213: the batch is exhausted, the summary is printed.
CheckSummary ==
    /\ job.pc = "loop"
    /\ job.i > Len(job.inactive_users)
    /\ job' = [job EXCEPT !.pc = "summary"]
    /\ UNCHANGED <<users, now, next_run_time, reqs, calls, hist, vapid>>

\* lines 217-218: db.close(), the job instance ends.
CheckClose ==
    /\ job.pc = "summary"
    /\ job' = IdleJob
    /\ UNCHANGED <<users, now, next_run_time, reqs, calls, hist, vapid>>

JobStep ==
    \/ CheckScan
    \/ CheckNext
    \/ \E status \in Statuses : SendReturns(status)
    \/ RemoveQuery
    \/ RemoveCommit
    \/ CheckCommit
    \/ CheckSummary
    \/ CheckClose

\* ---- API handlers ---------------------------------------------------------
FreeSlot(s) == reqs[s].op = "none" /\ \A t \in Slots : t < s => reqs[t].op # "none"

PendingInserts == Cardinality({s \in Slots : reqs[s].op = "subscribe" /\ reqs[s].user = 0})

\* Faulty variant of the update branch: last_active is not refreshed.
SubscribeUpdateKeepsTime(row, r) ==
    [row EXCEPT !.subscription = IF r.subscription # r.loaded
                                 THEN r.subscription ELSE @]

\* Lines 79-80 as committed at line 81: the UPDATE of a subscribe on an
\* existing row.  The ORM writes only the attributes whose new value
\* differs from the one it loaded, so an equal descriptor is not rewritten.
SubscribeUpdate(row, r) ==
    [row EXCEPT !.subscription = IF r.subscription # r.loaded
                                 THEN r.subscription ELSE @,
                !.last_active = r.ts]

\* User(name=..., subscription=..., last_active=...) of line 76
SubscribeInsert(r) ==
    [name |-> r.name, subscription |-> r.subscription, last_active |-> r.ts]

\* POST /subscribe, lines 72-80: the lookup by name, then the row is built
\* or changed in the session with utcnow() read; nothing is written yet.
\* data["subscription"] raises KeyError at line 76 or 79 when the key is
\* missing: the handler ends there, before db.add and before any commit.
Subscribe(s, name, sub) ==
    /\ calls < MaxCalls
    /\ FreeSlot(s)
    /\ LET u == FirstByName(users, name)
       IN IF sub = Missing
          THEN reqs' = reqs
          ELSE /\ u = 0 => Len(users) + PendingInserts < MaxRows
               /\ reqs' = [reqs EXCEPT ![s] =
                      [NoReq EXCEPT !.op = "subscribe", !.pc = "commit",
                                    !.name = name, !.subscription = sub,
                                    !.user = u,
                                    !.loaded = IF u = 0 THEN NoSub
                                               ELSE users[u].subscription,
                                    !.ts = now]]
    /\ calls' = calls + 1
    /\ UNCHANGED <<users, now, next_run_time, job, hist, vapid>>

\* lines 81-83: INSERT or UPDATE ... WHERE id, committed.
SubscribeCommit(s) ==
    LET r == reqs[s]
        u == IF r.user = 0 THEN Len(users) + 1 ELSE r.user
    IN /\ r.op = "subscribe"
       /\ r.pc = "commit"
       /\ users' = IF r.user = 0
                   THEN Append(users, SubscribeInsert(r))
                   ELSE [users EXCEPT ![u] = SubscribeUpdate(@, r)]
       /\ reqs' = [reqs EXCEPT ![s] = NoReq]
       /\ hist' = [hist EXCEPT ![u].cur = 0, ![u].prev = 0,
                               ![u].gone = IF @ = "gone" THEN "resub" ELSE @,
                               ![u].t0 = IF r.subscription \in Descs
                                         THEN r.ts ELSE -1,
                               ![u].beat = "no"]
       /\ job' = IF job.pc \in {"send", "remove", "remove_commit"}
                 THEN [job EXCEPT !.fresh =
                          IF /\ r.subscription \in Descs
                             /\ (r.user = 0 \/ r.subscription # r.loaded)
                          THEN @ \cup {u}
                          ELSE IF r.subscription # r.loaded THEN @ \ {u} ELSE @]
                 ELSE job
       /\ UNCHANGED <<now, next_run_time, calls, vapid>>

\* POST /heartbeat, lines 87-91: the lookup by name and, for a known name,
\* user.last_active = datetime.utcnow() in the session (lines 93-94 alone
\* when the name is unknown).
Heartbeat(s, name) ==
    /\ calls < MaxCalls
    /\ FreeSlot(s)
    /\ LET u == FirstByName(users, name)
       IN reqs' = IF u = 0 THEN reqs
                  ELSE [reqs EXCEPT ![s] =
                      [NoReq EXCEPT !.op = "heartbeat", !.pc = "commit",
                                    !.name = name, !.user = u, !.ts = now]]
    /\ calls' = calls + 1
    /\ UNCHANGED <<users, now, next_run_time, job, hist, vapid>>

\* lines 92-94: UPDATE users SET last_active WHERE id, committed.
HeartbeatCommit(s) ==
    LET r == reqs[s]
    IN /\ r.op = "heartbeat"
       /\ r.pc = "commit"
       /\ users' = [users EXCEPT ![r.user].last_active = r.ts]
       /\ reqs' = [reqs EXCEPT ![s] = NoReq]
       /\ hist' = [hist EXCEPT ![r.user].cur = 0, ![r.user].prev = 0,
                               ![r.user].t0 = -1,
                               ![r.user].beat =
                                   IF users[r.user].subscription = NoSub
                                   THEN "unsub" ELSE "sub"]
       /\ UNCHANGED <<now, next_run_time, job, calls, vapid>>

\* GET /test-subscription/{user_name}, lines 256-267: load the user, return
\* an error for no user or no subscription, else issue the send.
TestSubscription(s, name) ==
    /\ calls < MaxCalls
    /\ FreeSlot(s)
    /\ LET u == FirstByName(users, name)
       IN reqs' = IF u = 0 \/ users[u].subscription = NoSub THEN reqs
                  ELSE [reqs EXCEPT ![s] =
                      [NoReq EXCEPT !.op = "test", !.pc = "send", !.name = name,
                                    !.user = u,
                                    !.subscription = users[u].subscription]]
    /\ calls' = calls + 1
    /\ UNCHANGED <<users, now, next_run_time, job, hist, vapid>>

\* lines 137-162 for the manual send: webpush returns or raises.
TestSendReturns(s, status) ==
    /\ reqs[s].op = "test"
    /\ reqs[s].pc = "send"
    /\ reqs' = IF IsGone(status)
               THEN [reqs EXCEPT ![s].pc = "remove"]
               ELSE [reqs EXCEPT ![s] = NoReq]
    /\ UNCHANGED <<users, now, next_run_time, job, calls, hist, vapid>>

\* remove_expired_subscription for the manual send, lines 166-169.
TestRemoveQuery(s) ==
    /\ reqs[s].op = "test"
    /\ reqs[s].pc = "remove"
    /\ LET u == FirstBySubscription(users, reqs[s].subscription)
       IN reqs' = IF u = 0 THEN [reqs EXCEPT ![s] = NoReq]
                  ELSE [reqs EXCEPT ![s].pc = "remove_commit", ![s].found = u]
    /\ UNCHANGED <<users, now, next_run_time, job, calls, hist, vapid>>

\* lines 170-176 for the manual send.
TestRemoveCommit(s) ==
    /\ reqs[s].op = "test"
    /\ reqs[s].pc = "remove_commit"
    /\ users' = [users EXCEPT ![reqs[s].found].subscription = NoSub]
    /\ reqs' = [reqs EXCEPT ![s] = NoReq]
    /\ hist' = IF reqs[s].found = reqs[s].user
               THEN [hist EXCEPT ![reqs[s].user].tested = TRUE,
                                 ![reqs[s].user].cur = 0,
                                 ![reqs[s].user].prev = 0]
               ELSE hist
    /\ UNCHANGED <<now, next_run_time, job, calls, vapid>>

ApiStep ==
    \/ \E s \in Slots, name \in Names, sub \in RequestSubscriptions :
          Subscribe(s, name, sub)
    \/ \E s \in Slots : SubscribeCommit(s)
    \/ \E s \in Slots, name \in Names : Heartbeat(s, name)
    \/ \E s \in Slots : HeartbeatCommit(s)
    \/ \E s \in Slots, name \in Names : TestSubscription(s, name)
    \/ \E s \in Slots, status \in Statuses : TestSendReturns(s, status)
    \/ \E s \in Slots : TestRemoveQuery(s)
    \/ \E s \in Slots : TestRemoveCommit(s)

Next == Advance \/ ProcessJobs \/ JobStep \/ ApiStep

Spec == Init /\ [][Next]_vars

\* The worker thread keeps running the job it was given: webpush has
\* timeout=10 and every other statement of the job returns.
FairSpec == Spec /\ WF_vars(JobStep)

\* ---- store errors -----------------------------------------------------------
\* lines 215-218: the query of line 185, the reload of an expired user at
\* line 193 or the commit of line 209 raises (the database is locked, the
\* disk fails); the exception is printed, the session closed, the run over.
CheckRaises ==
    /\ \/ job.pc \in {"start", "commit"}
       \/ job.pc = "loop" /\ job.expired /\ job.i <= Len(job.inactive_users)
    /\ job' = IdleJob
    /\ UNCHANGED <<users, now, next_run_time, reqs, calls, hist, vapid>>

ErrNext == Next \/ CheckRaises

\* The program with a store that can fail under the job.
ErrSpec == Init /\ [][ErrNext]_vars /\ WF_vars(JobStep)

\* ---- get_vapid_claims on its own -----------------------------------------
ClaimsInit ==
    /\ users = <<>>
    /\ now = 0
    /\ next_run_time = Interval
    /\ job = IdleJob
    /\ reqs = [s \in Slots |-> NoReq]
    /\ calls = 0
    /\ hist = [r \in Rows |-> NoHist]
    /\ vapid \in VapidCalls

\* line 134: vapid_claims = get_vapid_claims(subscription)
VapidClaimsReturn ==
    /\ vapid.pc = "call"
    /\ vapid' = [vapid EXCEPT !.pc = "returned",
                              !.vapid_claims = GetVapidClaims(vapid.subscription_info)]
    /\ UNCHANGED <<users, now, next_run_time, job, reqs, calls, hist>>

ClaimsNext == VapidClaimsReturn

ClaimsSpec == ClaimsInit /\ [][ClaimsNext]_vars

\* ==== claims ================================================================
Dispatching(r) == job.pc = "send" /\ Cur = r

Invalidating(r) == job.pc \in {"remove", "remove_commit"} /\ Cur = r

\* C1: in every run of check_inactive_users each row that was scanned as
\* inactive with a subscription gets exactly one dispatch attempt in that
\* run: never two, and one by the time the summary is printed (a row whose
\* subscription a manual test send to it found gone and cleared during the
\* run is not counted).
C1_ExactlyOneDispatch ==
    /\ \A r \in Rows : hist[r].attempts <= 1
    /\ job.pc = "summary" =>
         \A k \in DOMAIN job.inactive_users :
            (/\ job.inactive_users[k].subscription # NoSub
             /\ ~hist[job.inactive_users[k].id].tested) =>
               hist[job.inactive_users[k].id].attempts = 1

\* C2: once a dispatch to a row returned 410 and its invalidation ran, the
\* row has no subscription and gets no dispatch attempt, until a subscribe
\* commits on it.
C2_GoneUnsubscribes ==
    \A r \in DOMAIN users :
       /\ hist[r].gone # "again"
       /\ (hist[r].gone = "gone" /\ ~Invalidating(r)) =>
             users[r].subscription = NoSub

\* C3: a row the job delivered to in one run gets no dispatch attempt in the
\* next run when no heartbeat or subscribe committed on it in between.
C3_NoRedispatchOnNextTick ==
    \A r \in Rows : ~(Dispatching(r) /\ hist[r].prev = 201)

\* C4: no step decreases a row's last_active.
C4_LastActiveNeverDecreases ==
    [][\A r \in DOMAIN users :
          users'[r].last_active >= users[r].last_active]_vars
\* C5: a 403 from the push service leaves every row as it was, is not
\* handled as a 410 (no invalidation is started) and is counted as a failure.
C5_AuthRejectedChangesNothing ==
    [][(job.pc = "send" /\ job'.pc # "send" /\ job'.status = 403) =>
          /\ users' = users
          /\ job'.pc = "loop"
          /\ job'.failed = job.failed + 1
          /\ job'.successful = job.successful]_vars

\* C5's case: the job has just handled a 403 for a row, which still holds
\* the subscription that was sent.
C5_Witness ==
    /\ job.pc = "loop"
    /\ job.status = 403
    /\ job.failed >= 1
    /\ job.i > 1
    /\ users[job.inactive_users[job.i - 1].id].subscription
          = job.inactive_users[job.i - 1].subscription

\* C6: a transient failure changes no row and is counted as a failure, and
\* the row is dispatched to again in the next run when no heartbeat or
\* subscribe committed on it in between (and no manual test send to it
\* found it gone and cleared it).
C6_TransientRetriedNextTick ==
    /\ [][(job.pc = "send" /\ job'.pc # "send" /\ job'.status = 500) =>
             /\ users' = users
             /\ job'.failed = job.failed + 1]_vars
    /\ [](job.pc = "summary" =>
             \A r \in Rows : hist[r].prev = 500 => hist[r].attempts = 1)
Stale(r) == users[r].last_active < now - Threshold

Scanned(inactive_users, r) ==
    \E k \in DOMAIN inactive_users : inactive_users[k].id = r

\* C7: a row whose last_active is the time T0 of a subscribe with a
\* descriptor (no heartbeat since) is selected by every scan that runs
\* after T0 + Threshold; the commit after a delivery sets last_active to the
\* time read in that run, later than the scanned value; and a run that
\* starts while a subscribed row is stale eventually sends to it, unless
\* the row is unsubscribed or stops being stale first.
C7_InactiveSubscriberReached ==
    /\ [][(job.pc = "start" /\ job'.pc = "loop") =>
             \A r \in DOMAIN users :
                (hist[r].t0 >= 0 /\ now > hist[r].t0 + Threshold) =>
                   Scanned(job'.inactive_users, r)]_vars
    /\ [][(job.pc = "commit" /\ job'.pc = "loop") =>
             /\ users'[Cur].last_active = job.ts
             /\ job.ts >= job.inactive_time + Threshold
             /\ users'[Cur].last_active > job.inactive_users[job.i].last_active]_vars
    /\ \A r \in Rows :
          (/\ job.pc = "start"
           /\ r \in DOMAIN users
           /\ users[r].subscription # NoSub
           /\ Stale(r))
          ~> (/\ r \in DOMAIN users
              /\ (Dispatching(r) \/ users[r].subscription = NoSub \/ ~Stale(r)))

\* C7's case: the job sends to a row that a subscribe registered and that
\* no heartbeat touched, more than Threshold after the subscribe.
C7_Witness ==
    \E r \in DOMAIN users :
       /\ Dispatching(r)
       /\ hist[r].t0 >= 0
       /\ job.inactive_time > hist[r].t0

\* C8: the commit of a subscribe with a descriptor, for a name whose row had
\* no subscription or for a name that had no row, leaves that row with the
\* name, the new descriptor and last_active = the time the call read.
C8_SubscribeResubscribes ==
    [][\A s \in Slots :
          (/\ reqs[s].op = "subscribe"
           /\ reqs'[s].op = "none"
           /\ reqs[s].subscription \in Descs
           /\ reqs[s].loaded = NoSub) =>
             LET u == IF reqs[s].user = 0 THEN Len(users) + 1 ELSE reqs[s].user
             IN /\ Len(users') = IF reqs[s].user = 0 THEN Len(users) + 1
                                 ELSE Len(users)
                /\ users'[u] = [name |-> reqs[s].name,
                                subscription |-> reqs[s].subscription,
                                last_active |-> reqs[s].ts]
                /\ reqs[s].ts <= now
                /\ \A r \in DOMAIN users : r # u => users'[r] = users[r]]_vars

\* C8's case: a row that a 410 unsubscribed and a subscribe re-registered is
\* sent to again by the job.
C8_Witness ==
    \E r \in DOMAIN users : hist[r].gone = "resub" /\ Dispatching(r)

\* C9: when the job reaches a row whose subscription it reads as null, its
\* step issues no send, changes no row and no counter and moves on; and no
\* send is ever in flight for a null subscription.
C9_NoSubscriptionSkipped ==
    /\ [][(/\ job.pc = "loop"
           /\ job.i <= Len(job.inactive_users)
           /\ SeenSubscription = NoSub
           /\ job' # job) =>
             /\ users' = users
             /\ job'.pc = "loop"
             /\ job'.i = job.i + 1
             /\ job'.successful = job.successful
             /\ job'.failed = job.failed
             /\ hist'[Cur].attempts = hist[Cur].attempts]_vars
    /\ [](job.pc = "send" => job.subscription # NoSub)
    /\ [](\A s \in Slots : reqs[s].pc = "send" => reqs[s].subscription # NoSub)

\* C9's case: the job has just passed a scanned row without a subscription
\* and issued no send for it.
C9_Witness ==
    /\ job.pc = "loop"
    /\ job.i > 1
    /\ users[job.inactive_users[job.i - 1].id].subscription = NoSub
    /\ job.inactive_users[job.i - 1].subscription = NoSub
    /\ hist[job.inactive_users[job.i - 1].id].attempts = 0

\* C10: the table never holds two rows with the same name.
C10_OneRowPerName ==
    \A i, j \in DOMAIN users : i # j => users[i].name # users[j].name

\* C11: a subscribe whose body has no usable subscription (key missing, or
\* null) is rejected and changes nothing: a missing key ends the handler
\* with no request left to commit, no subscribe reaches its commit with a
\* null subscription, and every row a subscribe commit inserted or updated
\* holds a descriptor.
C11_SubscribeRejectsUnusable ==
    /\ [][\A s \in Slots, name \in Names :
             Subscribe(s, name, Missing) => UNCHANGED <<users, reqs, job, hist>>]_vars
    /\ [](\A s \in Slots :
             reqs[s].op = "subscribe" => reqs[s].subscription \in Descs)
    /\ [][\A s \in Slots :
             (reqs[s].op = "subscribe" /\ reqs'[s].op = "none") =>
                LET u == IF reqs[s].user = 0 THEN Len(users) + 1
                         ELSE reqs[s].user
                IN users'[u].subscription \in Descs]_vars

\* C12: a heartbeat for a name without row ends with nothing changed and no
\* request left to commit; the commit of a heartbeat changes only the
\* last_active of the row of that name: the table keeps its length, the
\* row keeps its name and subscription, every other row is unchanged.
C12_HeartbeatTouchesOnlyLastActive ==
    /\ [][\A s \in Slots, name \in Names :
             (Heartbeat(s, name) /\ \A r \in DOMAIN users : users[r].name # name)
                => UNCHANGED <<users, reqs, job, hist>>]_vars
    /\ [][\A s \in Slots :
             (reqs[s].op = "heartbeat" /\ reqs'[s].op = "none") =>
                /\ Len(users') = Len(users)
                /\ users[reqs[s].user].name = reqs[s].name
                /\ users'[reqs[s].user] =
                      [users[reqs[s].user] EXCEPT !.last_active = reqs[s].ts]
                /\ \A r \in DOMAIN users :
                      r # reqs[s].user => users'[r] = users[r]]_vars

\* C12's case: a heartbeat committed on a row that a 410 had unsubscribed;
\* the row has no subscription now and its last_active is the heartbeat's.
C12_Witness ==
    \E r \in DOMAIN users :
       /\ hist[r].beat = "unsub"
       /\ hist[r].gone = "gone"
       /\ users[r].subscription = NoSub
       /\ users[r].last_active > 0

\* The text 'fcm.googleapis.com' occurs in the URL built from the parts.
PartsHaveFcm(p) ==
    p.host \in FcmTokens \/ \E i \in DOMAIN p.path : p.path[i] \in FcmTokens

\* C13: for a subscription whose endpoint is scheme://host[:port]/path?query
\* get_vapid_claims returns sub = the fixed contact and aud = the fixed
\* 'https://fcm.googleapis.com' when the URL contains 'fcm.googleapis.com',
\* else scheme://host[:port] with path and query stripped; without an
\* endpoint the sub is the same.
C13_AudienceRule ==
    vapid.pc = "returned" =>
       /\ vapid.vapid_claims.sub = Contact
       /\ "endpoint" \in DOMAIN vapid.subscription_info =>
             vapid.vapid_claims.aud =
                IF PartsHaveFcm(vapid.parts) THEN FcmAud
                ELSE <<vapid.parts.scheme, "://">> \o Authority(vapid.parts)

\* C13's case: the claims were computed for an endpoint of another push
\* service, with a port, a path and a query.
C13_Witness ==
    /\ vapid.pc = "returned"
    /\ "endpoint" \in DOMAIN vapid.subscription_info
    /\ ~PartsHaveFcm(vapid.parts)
    /\ vapid.parts.port # ""
    /\ vapid.parts.path # <<>>
    /\ vapid.parts.query # ""
    /\ vapid.vapid_claims.aud # FcmAud

\* C14: no step made inside send_push_notification changes the table,
\* whatever the outcome: neither in a manual test send (from the send to
\* the return of the handler) nor in the job's send (from the send until
\* control is back in the loop of check_inactive_users).
C14_SendNeverMutates ==
    /\ [][\A s \in Slots :
             (reqs[s].op = "test" /\ reqs'[s] # reqs[s]) => users' = users]_vars
    /\ [][(job.pc \in {"send", "remove", "remove_commit"}
              /\ job'.pc # job.pc) => users' = users]_vars

\* C15: one run of check_inactive_users at a time: no run is started while
\* one is running, a fire time that finds a run running leaves it as it is
\* and starts nothing, and every run ends, with the job idle again, also
\* when the store raises under it.
C15_NoOverlappingRuns ==
    /\ [][(job.pc # "idle" /\ job' # job) => job'.pc # "start"]_vars
    /\ [][(now = next_run_time /\ next_run_time' # next_run_time
              /\ job.pc # "idle") => job' = job]_vars
    /\ (job.pc # "idle") ~> (job.pc = "idle")

\* C15's case: the fire time `now` has been handled while a run that
\* scanned at an earlier fire time is still running.
C15_Witness ==
    /\ job.pc \notin {"idle", "start"}
    /\ next_run_time = now + Interval
    /\ job.inactive_time + Threshold < now

\* C16: when the summary is printed, successful is the number of sends of
\* the run that were delivered, failed the number of its sends with any
\* other outcome, successful + failed the number of scanned users the job
\* read a subscription on and sent to, and the users it skipped are the
\* rest of the batch, counted in neither.
C16_SummaryCounts ==
    job.pc = "summary" =>
       /\ job.successful = job.delivered
       /\ job.failed = job.undelivered
       /\ job.successful + job.failed = job.sent
       /\ job.sent + job.skipped = Len(job.inactive_users)

\* C16's case: the summary of a run that skipped a user and sent to
\* another whose subscription had expired.
C16_Witness ==
    /\ job.pc = "summary"
    /\ job.skipped >= 1
    /\ job.failed >= 1
    /\ job.status = 410

\* C17: whenever the job issues a send to a row, the row's stored
\* last_active is then older than the threshold: a row whose heartbeat
\* committed after the scan is not sent to in that run.
C17_DispatchOnlyWhenStale ==
    [][(job.pc = "loop" /\ job'.pc = "send") => Stale(Cur)]_vars

\* C18: the commit of the job's remove_expired_subscription never clears a
\* descriptor that a subscribe wrote to the row after the failed send was
\* issued.
C18_InvalidationKeepsNewDescriptor ==
    [][(job.pc = "remove_commit" /\ job'.pc = "loop") =>
          ~(job.user \in job.fresh /\ users[job.user].subscription # NoSub)]_vars

\* C19: the commit of remove_expired_subscription after a 410 clears the
\* subscription of the row the send was for and changes no other row, also
\* when another row holds an equal descriptor; in the job's send and in a
\* manual test send.
C19_InvalidationHitsDispatchedRow ==
    /\ [][(job.pc = "remove_commit" /\ job'.pc = "loop") =>
             /\ job.user = Cur
             /\ users'[Cur].subscription = NoSub
             /\ \A r \in DOMAIN users : r # Cur => users'[r] = users[r]]_vars
    /\ [][\A s \in Slots :
             (reqs[s].op = "test" /\ reqs[s].pc = "remove_commit"
                /\ reqs'[s].op = "none") =>
                /\ reqs[s].found = reqs[s].user
                /\ users'[reqs[s].user].subscription = NoSub
                /\ \A r \in DOMAIN users :
                      r # reqs[s].user => users'[r] = users[r]]_vars

====
